---- MODULE Spec2Model ----
(***************************************************************************)
(* Model of the NFL matchup pipeline: the aggregator of                    *)
(* data_providers.py (compute_team_unit_metrics) and the scoring stages of *)
(* streamlit_app.py (normalize, unitize_offense, unitize_defense,          *)
(* build_maps, unit_matchup, adjusted_team_edge, the verdict of the game   *)
(* loop).                                                                  *)
(*                                                                         *)
(* Numbers.  Every number of the pipeline is a Python/numpy float: a       *)
(* binary floating-point value, each operation rounded to nearest, ties to *)
(* even.  A float is modelled as <<m, e>>, the value m * 2^e, in canonical *)
(* form (m odd, or <<0, 0>> for zero), with |m| < 2^Prec.  The significand *)
(* width Prec stands for the 53 bits of binary64; the exponent is          *)
(* unbounded (no value of the pipeline comes near overflow or underflow).  *)
(* NaN, pandas' "absent", is the extra value NaN; it propagates through    *)
(* arithmetic and every comparison with it is false.                       *)
(***************************************************************************)
EXTENDS Integers, Sequences, FiniteSets, TLC

\* Significand width of the modelled floats (binary64 has 53).
Prec == 7

(***************************************************************************)
(* Floating-point layer                                                    *)
(***************************************************************************)
RECURSIVE Pow2(_)
Pow2(n) == IF n <= 0 THEN 1 ELSE 2 * Pow2(n - 1)

Abs(n) == IF n < 0 THEN -n ELSE n

\* Number of bits of n >= 0 (0 for 0).
RECURSIVE BitLen(_)
BitLen(n) == IF n = 0 THEN 0 ELSE 1 + BitLen(n \div 2)

\* The canonical form of m * 2^e.
RECURSIVE Canon(_, _)
Canon(m, e) ==
  IF m = 0 THEN <<0, 0>>
  ELSE IF m % 2 = 0 THEN Canon(m \div 2, e + 1)
  ELSE <<m, e>>

NaN == <<0, 1>>
isna(x) == x = NaN
notna(x) == x # NaN

\* The tie rule: round up past the half, or at the half to an even quotient.
RoundsUp(q, r, half, sticky) == r > half \/ (r = half /\ (sticky \/ q % 2 = 1))

\* n * 2^e with its k low bits rounded away.
RoundAt(n, e, sticky, k) ==
  <<IF RoundsUp(n \div Pow2(k), n % Pow2(k), Pow2(k - 1), sticky)
    THEN n \div Pow2(k) + 1 ELSE n \div Pow2(k), e + k>>

\* n * 2^e (n >= 0; strictly more when sticky) rounded to Prec bits, nearest-even.
RoundMag(n, e, sticky) ==
  IF BitLen(n) <= Prec THEN <<n, e>> ELSE RoundAt(n, e, sticky, BitLen(n) - Prec)

\* p with the sign of n, in canonical form.
WithSign(n, p) == Canon(IF n < 0 THEN -p[1] ELSE p[1], p[2])

\* (N / d) * 2^e rounded after the quotient is taken with k extra bits.
RoundQuot(N, d, e, k) ==
  RoundMag((N * Pow2(k)) \div d, e - k, (N * Pow2(k)) % d # 0)

\* The number of extra bits that gives the quotient N / d at least Prec + 2 bits.
ExtraBits(N, d) ==
  IF Prec + 2 + BitLen(d) - BitLen(N) > 0 THEN Prec + 2 + BitLen(d) - BitLen(N) ELSE 0

\* The float nearest to (n / d) * 2^e, d > 0.
RoundRat(n, d, e) ==
  IF n = 0 THEN <<0, 0>>
  ELSE WithSign(n, RoundQuot(Abs(n), d, e, ExtraBits(Abs(n), d)))

\* A decimal literal n/d of the source, e.g. 0.6 = Lit(6, 10).
Lit(n, d) == RoundRat(n, d, 0)

\* An integer converted to float.
F(n) == RoundRat(n, 1, 0)

MinE(a, b) == IF a[2] < b[2] THEN a[2] ELSE b[2]

\* a + b
fadd(a, b) ==
  IF isna(a) \/ isna(b) THEN NaN
  ELSE LET e == MinE(a, b)
       IN  RoundRat(a[1] * Pow2(a[2] - e) + b[1] * Pow2(b[2] - e), 1, e)

\* a - b
fsub(a, b) ==
  IF isna(a) \/ isna(b) THEN NaN
  ELSE LET e == MinE(a, b)
       IN  RoundRat(a[1] * Pow2(a[2] - e) - b[1] * Pow2(b[2] - e), 1, e)

\* a * b
fmul(a, b) ==
  IF isna(a) \/ isna(b) THEN NaN
  ELSE RoundRat(a[1] * b[1], 1, a[2] + b[2])

\* a / b (0/0 is NaN; the pipeline never divides a non-zero by zero)
fdiv(a, b) ==
  IF isna(a) \/ isna(b) \/ b[1] = 0 THEN NaN
  ELSE IF b[1] < 0 THEN RoundRat(-a[1], -b[1], a[2] - b[2])
  ELSE RoundRat(a[1], b[1], a[2] - b[2])

\* a < b, a <= b, a > b (false when either is NaN)
flt(a, b) ==
  /\ notna(a) /\ notna(b)
  /\ LET e == MinE(a, b) IN a[1] * Pow2(a[2] - e) < b[1] * Pow2(b[2] - e)
fle(a, b) == notna(a) /\ notna(b) /\ (a = b \/ flt(a, b))
fgt(a, b) == flt(b, a)
fneg(a) == IF isna(a) THEN NaN ELSE <<-a[1], a[2]>>

(***************************************************************************)
(* Scoring stages (streamlit_app.py)                                       *)
(***************************************************************************)
OffUnits == <<"QB", "RB", "WR", "TE", "OL">>
DefUnits == <<"PassRush", "RunDefense", "CoverageDB", "CoverageLB", "DL">>

Range(s) == {s[i] : i \in DOMAIN s}

\* min / max of a non-empty set of floats
fmin(S) == CHOOSE x \in S : \A y \in S : fle(x, y)
fmax(S) == CHOOSE x \in S : \A y \in S : fle(y, x)

\* Mutant of normalize: a constant column maps only its non-absent rows to 0.5.
normalizeKeepsAbsent(series, invert) ==
  LET s   == series
      nn  == {x \in Range(s) : notna(x)}
      out == IF Cardinality(nn) <= 1
             THEN [i \in DOMAIN s |-> IF notna(s[i]) THEN Lit(1, 2) ELSE NaN]
             ELSE LET mn == fmin(nn)
                      mx == fmax(nn)
                  IN  [i \in DOMAIN s |-> fdiv(fsub(s[i], mn), fsub(mx, mn))]
  IN  IF invert THEN [i \in DOMAIN s |-> fsub(F(1), out[i])] ELSE out

\* Mutant of normalize: the shifted values are divided by the maximum, not by
\* the range.
normalizeByMax(series, invert) ==
  LET s   == series
      nn  == {x \in Range(s) : notna(x)}
      out == IF Cardinality(nn) <= 1
             THEN [i \in DOMAIN s |-> Lit(1, 2)]
             ELSE LET mn == fmin(nn)
                      mx == fmax(nn)
                  IN  IF mx = mn
                      THEN [i \in DOMAIN s |-> Lit(1, 2)]
                      ELSE [i \in DOMAIN s |-> fdiv(fsub(s[i], mn), mx)]
  IN  IF invert THEN [i \in DOMAIN s |-> fsub(F(1), out[i])] ELSE out

\* normalize(series, invert): series is the column after pd.to_numeric, a
\* sequence of floats and NaN, one per row.
normalize(series, invert) ==
  LET s   == series
      nn  == {x \in Range(s) : notna(x)}
      out == IF Cardinality(nn) <= 1
             THEN [i \in DOMAIN s |-> Lit(1, 2)]
             ELSE LET mn == fmin(nn)
                      mx == fmax(nn)
                  IN  IF mx = mn
                      THEN [i \in DOMAIN s |-> Lit(1, 2)]
                      ELSE [i \in DOMAIN s |-> fdiv(fsub(s[i], mn), fsub(mx, mn))]
  IN  IF invert THEN [i \in DOMAIN s |-> fsub(F(1), out[i])] ELSE out

\* [v for v in vals if pd.notna(v)]
RECURSIVE DropNa(_)
DropNa(vals) ==
  IF vals = <<>> THEN <<>>
  ELSE IF notna(Head(vals)) THEN <<Head(vals)>> \o DropNa(Tail(vals))
  ELSE DropNa(Tail(vals))

\* np.add.reduce over a non-empty list, left to right
RECURSIVE SumSeq(_)
SumSeq(vals) ==
  IF Len(vals) = 1 THEN vals[1]
  ELSE fadd(SumSeq(SubSeq(vals, 1, Len(vals) - 1)), vals[Len(vals)])


\* Mutant of MeanOrNaN: an empty list scores zero.
MeanOrZero(vals) == IF vals = <<>> THEN F(0) ELSE fdiv(SumSeq(vals), F(Len(vals)))

\* float(np.mean(vals)) if vals else np.nan
MeanOrNaN(vals) == IF vals = <<>> THEN NaN ELSE fdiv(SumSeq(vals), F(Len(vals)))

\* offense_unit_score(r), r a row carrying the normalized columns
offense_unit_score(r) ==
  LET vals == IF r.unit = "OL" THEN <<r.pbw_n, r.rbw_n>>
              ELSE <<r.epa_n, r.succ_n, r.expl_n>>
  IN  MeanOrNaN(DropNa(vals))

\* defense_unit_score(r)
defense_unit_score(r) ==
  LET vals == IF r.unit = "PassRush" THEN <<r.pressure_n>>
              ELSE IF r.unit = "RunDefense"
                   THEN <<r.run_stop_win_n, r.expl_allowed_n, r.succ_allowed_n>>
              ELSE IF r.unit \in {"CoverageDB", "CoverageLB"}
                   THEN <<r.coverage_n, r.epa_allowed_n, r.succ_allowed_n, r.expl_allowed_n>>
              ELSE IF r.unit = "DL" THEN <<r.run_stop_win_n>>
              ELSE <<>>
  IN  MeanOrNaN(DropNa(vals))

\* dict.get(key, np.nan)
Get(map, key) == IF key \in DOMAIN map THEN map[key] ELSE NaN

\* Mutant of BlendEdge: an absent defensive score makes the edge absent.
BlendEdgeStrict(off, d1, d2, w) ==
  IF notna(off) /\ notna(d1) /\ notna(d2)
  THEN fsub(fsub(off, fmul(d1, w)), fmul(d2, fsub(F(1), w)))
  ELSE NaN

\* off - (d1 * w if notna(d1) else 0) - (d2 * (1 - w) if notna(d2) else 0)
\*   if notna(off) else nan
BlendEdge(off, d1, d2, w) ==
  IF notna(off)
  THEN fsub(fsub(off, IF notna(d1) THEN fmul(d1, w) ELSE F(0)),
            IF notna(d2) THEN fmul(d2, fsub(F(1), w)) ELSE F(0))
  ELSE NaN

\* unit_matchup: sh is the record of the four shares
unit_matchup(off_team, def_team, off_map, def_map, sh) ==
  LET qb_cov   == Get(def_map, <<def_team, "CoverageDB">>)
      qb_pr    == Get(def_map, <<def_team, "PassRush">>)
      qb_off   == Get(off_map, <<off_team, "QB">>)
      rb_run   == Get(def_map, <<def_team, "RunDefense">>)
      rb_cov   == Get(def_map, <<def_team, "CoverageLB">>)
      rb_off   == Get(off_map, <<off_team, "RB">>)
      wr_cov   == Get(def_map, <<def_team, "CoverageDB">>)
      wr_off   == Get(off_map, <<off_team, "WR">>)
      te_covlb == Get(def_map, <<def_team, "CoverageLB">>)
      te_covdb == Get(def_map, <<def_team, "CoverageDB">>)
      te_off   == Get(off_map, <<off_team, "TE">>)
      ol_pr    == Get(def_map, <<def_team, "PassRush">>)
      ol_run   == Get(def_map, <<def_team, "RunDefense">>)
      ol_off   == Get(off_map, <<off_team, "OL">>)
  IN  [QB |-> BlendEdge(qb_off, qb_cov, qb_pr, sh.qb_cov_w),
       RB |-> BlendEdge(rb_off, rb_run, rb_cov, sh.rb_run_w),
       WR |-> IF notna(wr_off) /\ notna(wr_cov) THEN fsub(wr_off, wr_cov) ELSE NaN,
       TE |-> BlendEdge(te_off, te_covlb, te_covdb, sh.te_covlb_w),
       OL |-> BlendEdge(ol_off, ol_pr, ol_run, sh.ol_pass_w)]

\* Mutant of clip: the upper limit is not applied.
clipLowerOnly(x, lo, hi) == IF flt(x, lo) THEN lo ELSE x

\* np.clip(x, lo, hi)
clip(x, lo, hi) ==
  LET y == IF flt(x, lo) THEN lo ELSE x
  IN  IF fgt(y, hi) THEN hi ELSE y

\* Mutant of TTF: the base of the factor is 0.5.
TTFHalfBase(ol_edge, dep_strength) ==
  IF isna(ol_edge) THEN F(1)
  ELSE clip(fadd(Lit(5, 10), fmul(fmul(Lit(4, 10), ol_edge), dep_strength)),
            Lit(2, 10), F(1))

\* ttf = 1.0 if pd.isna(ol_edge) else np.clip(0.6 + 0.4 * ol_edge * dep_strength, 0.2, 1.0)
TTF(ol_edge, dep_strength) ==
  IF isna(ol_edge) THEN F(1)
  ELSE clip(fadd(Lit(6, 10), fmul(fmul(Lit(4, 10), ol_edge), dep_strength)),
            Lit(2, 10), F(1))

\* Mutant of Adjust: the factor scales the RB edge as well.
AdjustAlsoRB(raw, ttf) ==
  [QB |-> IF notna(raw.QB) THEN fmul(raw.QB, ttf) ELSE NaN,
   WR |-> IF notna(raw.WR) THEN fmul(raw.WR, ttf) ELSE NaN,
   TE |-> IF notna(raw.TE) THEN fmul(raw.TE, ttf) ELSE NaN,
   RB |-> IF notna(raw.RB) THEN fmul(raw.RB, ttf) ELSE NaN,
   OL |-> raw.OL]

\* adj = {"QB": ..., "WR": ..., "TE": ..., "RB": ..., "OL": ...}
Adjust(raw, ttf) ==
  [QB |-> IF notna(raw.QB) THEN fmul(raw.QB, ttf) ELSE NaN,
   WR |-> IF notna(raw.WR) THEN fmul(raw.WR, ttf) ELSE NaN,
   TE |-> IF notna(raw.TE) THEN fmul(raw.TE, ttf) ELSE NaN,
   RB |-> raw.RB,
   OL |-> raw.OL]

\* The keys of adj in the dict's (insertion) order, which the roll-up follows.
AdjOrder == <<"QB", "WR", "TE", "RB", "OL">>

\* Mutant of Qualifies: an absent edge is not left out.
QualifiesAnyEdge(adj, weights, k) == fgt(weights[k], F(0))

\* The unit k enters the roll-up: pd.notna(v) and weights[k] > 0
Qualifies(adj, weights, k) == notna(adj[k]) /\ fgt(weights[k], F(0))

\* total and wsum after the first n keys of the loop
RECURSIVE RollUp(_, _, _)
RollUp(adj, weights, n) ==
  IF n = 0 THEN [total |-> F(0), wsum |-> F(0)]
  ELSE LET acc == RollUp(adj, weights, n - 1)
           k   == AdjOrder[n]
       IN  IF Qualifies(adj, weights, k)
           THEN [total |-> fadd(acc.total, fmul(weights[k], adj[k])),
                 wsum  |-> fadd(acc.wsum, weights[k])]
           ELSE acc

\* team_edge = (total / wsum) if wsum > 0 else np.nan
TeamEdge(adj, weights) ==
  LET acc == RollUp(adj, weights, Len(AdjOrder))
  IN  IF fgt(acc.wsum, F(0)) THEN fdiv(acc.total, acc.wsum) ELSE NaN

\* adjusted_team_edge returns (team_edge, raw, adj, ttf)
adjusted_team_edge(off_team, def_team, off_map, def_map, dep_strength, weights, sh) ==
  LET raw == unit_matchup(off_team, def_team, off_map, def_map, sh)
      ttf == TTF(raw.OL, dep_strength)
      adj == Adjust(raw, ttf)
  IN  [team_edge |-> TeamEdge(adj, weights), raw |-> raw, adj |-> adj, ttf |-> ttf]

\* net = home_edge - away_edge if both present else nan
NetEdge(home_edge, away_edge) ==
  IF notna(home_edge) /\ notna(away_edge) THEN fsub(home_edge, away_edge) ELSE NaN

\* Mutant of Verdict: the directional verdicts take a non-strict comparison.
VerdictNonStrict(net, close_margin) ==
  IF isna(net) THEN "Insufficient data"
  ELSE IF fle(close_margin, net) THEN "home should win"
  ELSE IF fle(net, fneg(close_margin)) THEN "away should win"
  ELSE "Too close to call"

\* The verdict of one game
Verdict(net, close_margin) ==
  IF isna(net) THEN "Insufficient data"
  ELSE IF fgt(net, close_margin) THEN "home should win"
  ELSE IF flt(net, fneg(close_margin)) THEN "away should win"
  ELSE "Too close to call"

\* The two sides of one game and its verdict, as the game loop computes them.
PickOf(g, h, a, net, close_margin) ==
  [home |-> g.home_team, away |-> g.away_team, home_edge |-> h.team_edge,
   away_edge |-> a.team_edge, home_raw |-> h.raw, away_raw |-> a.raw,
   home_adj |-> h.adj, away_adj |-> a.adj, home_ttf |-> h.ttf, away_ttf |-> a.ttf,
   net |-> net, verdict |-> Verdict(net, close_margin)]

\* The body of the game loop for the game g under the sidebar inputs sb
GamePick(g, omap, dmap, sb) ==
  LET h == adjusted_team_edge(g.home_team, g.away_team, omap, dmap, sb.dep_strength,
                              sb.weights, sb.sh)
      a == adjusted_team_edge(g.away_team, g.home_team, omap, dmap, sb.dep_strength,
                              sb.weights, sb.sh)
  IN  PickOf(g, h, a, NetEdge(h.team_edge, a.team_edge), sb.close_margin)

(***************************************************************************)
(* Aggregator (data_providers.py, compute_team_unit_metrics)               *)
(*                                                                         *)
(* A play is a record of the columns the function reads.  A team code is a *)
(* positive integer, None an absent posteam/defteam.  A DataFrame built    *)
(* from a list of row dicts is [cols, rows]: its columns are the keys of   *)
(* the dicts, so a frame built from an empty list has no columns.          *)
(***************************************************************************)
None == 0

OffenseCols == {"team", "unit", "epa_per_play", "success_rate", "explosive_rate",
                "pass_block_win", "run_block_win"}
DefenseCols == {"team", "unit", "epa_allowed", "success_allowed", "explosive_allowed",
                "pressure_rate", "run_stop_win", "coverage_grade"}

\* pd.DataFrame(rows)
DataFrame(rows, cols) == [cols |-> IF rows = <<>> THEN {} ELSE cols, rows |-> rows]

\* The two filters of lines 147-148
Keep(p, season, week) ==
  /\ p.season = season /\ p.week <= week /\ p.season_type = "REG"
  /\ p.play_type \in {"pass", "run"} /\ notna(p.epa)

RECURSIVE Filter(_, _, _)
Filter(plays, season, week) ==
  IF plays = <<>> THEN <<>>
  ELSE (IF Keep(Head(plays), season, week) THEN <<Head(plays)>> ELSE <<>>)
       \o Filter(Tail(plays), season, week)

\* df["success"], df["explosive"]
success(p) == IF fgt(p.epa, F(0)) THEN 1 ELSE 0
explosive(p) ==
  IF \/ p.play_type = "pass" /\ fle(F(20), p.air_yards)
     \/ p.play_type = "run" /\ fle(F(12), p.yards_gained)
  THEN 1 ELSE 0
\* Mutant of stuffed: a run for no gain is not counted.
stuffedStrict(p) == IF flt(p.yards_gained, F(0)) THEN 1 ELSE 0

\* pass_df["sack"].fillna(0).astype(int), run_df["stuffed"]
sack(p) == IF notna(p.sack) /\ p.sack # F(0) THEN 1 ELSE 0
stuffed(p) == IF fle(p.yards_gained, F(0)) THEN 1 ELSE 0

\* The plays of d whose column key (posteam or defteam) is t, in order
RECURSIVE Group(_, _, _)
Group(d, key, t) ==
  IF d = <<>> THEN <<>>
  ELSE (IF Head(d)[key] = t THEN <<Head(d)>> ELSE <<>>) \o Group(Tail(d), key, t)

RECURSIVE OfType(_, _)
OfType(d, type) ==
  IF d = <<>> THEN <<>>
  ELSE (IF Head(d).play_type = type THEN <<Head(d)>> ELSE <<>>) \o OfType(Tail(d), type)

\* The group keys of groupby(key, dropna=True)
Keys(d, key) == {d[i][key] : i \in DOMAIN d} \ {None}

\* A set of team codes in ascending order (groupby and merge sort their keys)
RECURSIVE Sorted(_)
Sorted(S) ==
  IF S = {} THEN <<>>
  ELSE LET m == CHOOSE x \in S : \A y \in S : x <= y IN <<m>> \o Sorted(S \ {m})

\* Sum of an integer column and mean of a 0/1 column over the plays g
RECURSIVE CountOnes(_, _)
CountOnes(g, col) ==
  IF g = <<>> THEN 0
  ELSE (CASE col = "success" -> success(Head(g))
          [] col = "explosive" -> explosive(Head(g))
          [] col = "sack" -> sack(Head(g))
          [] col = "stuffed" -> stuffed(Head(g)))
       + CountOnes(Tail(g), col)
MeanOnes(g, col) == fdiv(F(CountOnes(g, col)), F(Len(g)))
\* Mean of epa over the plays g (the sum taken in row order)
MeanEpa(g) == fdiv(SumSeq([i \in DOMAIN g |-> g[i].epa]), F(Len(g)))

\* sacks / attempts.clip(lower=1) over the plays g, NaN for a team with no row
\* on this side of the merge
Rate(g, col) ==
  IF g = <<>> THEN NaN
  ELSE fdiv(F(CountOnes(g, col)), F(IF Len(g) < 1 THEN 1 ELSE Len(g)))
\* 1.0 - rate
WinProxy(g, col) == fsub(F(1), Rate(g, col))

\* Mutant of MergeOuter: an inner join of the two proxy tables.
MergeInner(passTeams, runTeams) == passTeams \cap runTeams

\* The teams of pd.merge(ol_pass, ol_run, on="team", how="outer")
MergeOuter(passTeams, runTeams) == passTeams \cup runTeams

\* The four skill rows of one team (lines 195-202)
SkillRows(d, t) ==
  LET g == Group(d, "posteam", t)
  IN  [k \in 1..4 |->
         [team |-> t, unit |-> OffUnits[k], epa_per_play |-> MeanEpa(g),
          success_rate |-> MeanOnes(g, "success"),
          explosive_rate |-> MeanOnes(g, "explosive"),
          pass_block_win |-> NaN, run_block_win |-> NaN]]

\* The OL row of one team (lines 205-209)
OLRow(d, t) ==
  LET g == Group(d, "posteam", t)
  IN  [team |-> t, unit |-> "OL", epa_per_play |-> NaN, success_rate |-> NaN,
       explosive_rate |-> NaN,
       pass_block_win |-> WinProxy(OfType(g, "pass"), "sack"),
       run_block_win |-> WinProxy(OfType(g, "run"), "stuffed")]

\* The five rows of one defense (lines 241-255)
DefenseRows(d, t) ==
  LET g    == Group(d, "defteam", t)
      ea   == MeanEpa(g)
      sa   == MeanOnes(g, "success")
      xa   == MeanOnes(g, "explosive")
      pr   == Rate(OfType(g, "pass"), "sack")
      rs   == Rate(OfType(g, "run"), "stuffed")
      Row(u, e, su, x, p, r) ==
        [team |-> t, unit |-> u, epa_allowed |-> e, success_allowed |-> su,
         explosive_allowed |-> x, pressure_rate |-> p, run_stop_win |-> r,
         coverage_grade |-> NaN]
  IN  <<Row("PassRush", NaN, NaN, NaN, pr, NaN),
        Row("RunDefense", NaN, NaN, xa, NaN, rs),
        Row("CoverageDB", ea, sa, xa, NaN, NaN),
        Row("CoverageLB", ea, sa, xa, NaN, NaN),
        Row("DL", NaN, NaN, NaN, NaN, rs)>>

\* The concatenation of f[ts[1]], f[ts[2]], ...
RECURSIVE Concat(_)
Concat(ss) == IF ss = <<>> THEN <<>> ELSE Head(ss) \o Concat(Tail(ss))

\* compute_team_unit_metrics(pbp, season, week) -> (offense_units, defense_units)
compute_team_unit_metrics(plays, season, week) ==
  LET d        == Filter(plays, season, week)
      offTeams == Sorted(Keys(d, "posteam"))
      olTeams  == Sorted(MergeOuter(Keys(OfType(d, "pass"), "posteam"),
                                    Keys(OfType(d, "run"), "posteam")))
      defTeams == Sorted(Keys(d, "defteam"))
      offRows  == Concat([i \in DOMAIN offTeams |-> SkillRows(d, offTeams[i])])
                  \o [i \in DOMAIN olTeams |-> OLRow(d, olTeams[i])]
      defRows  == Concat([i \in DOMAIN defTeams |-> DefenseRows(d, defTeams[i])])
  IN  [offense_units |-> DataFrame(offRows, OffenseCols),
       defense_units |-> DataFrame(defRows, DefenseCols)]

\* A column of a frame as a series
Column(frame, c) == [i \in DOMAIN frame.rows |-> frame.rows[i][c]]

\* off[c] succeeds for every column unitize_offense reads (else: KeyError)
HasOffenseColumns(off) ==
  {"epa_per_play", "success_rate", "explosive_rate", "pass_block_win",
   "run_block_win"} \subseteq off.cols
\* deff[c] succeeds for every column unitize_defense reads (else: KeyError)
HasDefenseColumns(deff) ==
  {"epa_allowed", "success_allowed", "explosive_allowed", "pressure_rate",
   "run_stop_win", "coverage_grade"} \subseteq deff.cols

\* unitize_offense(off), for a frame that has the columns
unitize_offense(off) ==
       LET epa_n  == normalize(Column(off, "epa_per_play"), FALSE)
           succ_n == normalize(Column(off, "success_rate"), FALSE)
           expl_n == normalize(Column(off, "explosive_rate"), FALSE)
           pbw_n  == normalize(Column(off, "pass_block_win"), FALSE)
           rbw_n  == normalize(Column(off, "run_block_win"), FALSE)
           n(i)   == off.rows[i] @@ [epa_n |-> epa_n[i], succ_n |-> succ_n[i],
                                     expl_n |-> expl_n[i], pbw_n |-> pbw_n[i],
                                     rbw_n |-> rbw_n[i]]
       IN  [cols |-> off.cols \cup {"epa_n", "succ_n", "expl_n", "pbw_n", "rbw_n",
                                    "unit_off_score"},
            rows |-> [i \in DOMAIN off.rows |->
                        n(i) @@ [unit_off_score |-> offense_unit_score(n(i))]]]

\* unitize_defense(deff), for a frame that has the columns
unitize_defense(deff) ==
       LET epa_allowed_n  == normalize(Column(deff, "epa_allowed"), TRUE)
           succ_allowed_n == normalize(Column(deff, "success_allowed"), TRUE)
           expl_allowed_n == normalize(Column(deff, "explosive_allowed"), TRUE)
           pressure_n     == normalize(Column(deff, "pressure_rate"), FALSE)
           run_stop_win_n == normalize(Column(deff, "run_stop_win"), FALSE)
           coverage_n     == normalize(Column(deff, "coverage_grade"), FALSE)
           n(i) == deff.rows[i] @@
                   [epa_allowed_n |-> epa_allowed_n[i], succ_allowed_n |-> succ_allowed_n[i],
                    expl_allowed_n |-> expl_allowed_n[i], pressure_n |-> pressure_n[i],
                    run_stop_win_n |-> run_stop_win_n[i], coverage_n |-> coverage_n[i]]
       IN  [cols |-> deff.cols \cup {"epa_allowed_n", "succ_allowed_n", "expl_allowed_n",
                                     "pressure_n", "run_stop_win_n", "coverage_n",
                                     "unit_def_score"},
            rows |-> [i \in DOMAIN deff.rows |->
                        n(i) @@ [unit_def_score |-> defense_unit_score(n(i))]]]

\* One of the two dict comprehensions of build_maps: a later row of the same key
\* replaces an earlier one.
ScoreMap(frame, col) ==
  [k \in {<<frame.rows[i].team, frame.rows[i].unit>> : i \in DOMAIN frame.rows} |->
     LET last == CHOOSE i \in DOMAIN frame.rows :
                   /\ <<frame.rows[i].team, frame.rows[i].unit>> = k
                   /\ \A j \in DOMAIN frame.rows :
                        <<frame.rows[j].team, frame.rows[j].unit>> = k => j <= i
     IN  frame.rows[last][col]]

(***************************************************************************)
(* State.  pc is the position of the run.  args and ret hold the arguments *)
(* and the result when one function is applied on its own.  The others are *)
(* the module-level names of streamlit_app.py: the sidebar inputs, the     *)
(* play log pbp, the schedule sched, the unit tables off_u and def_u, the  *)
(* scored tables of and df, the maps off_map and def_map, and picks, the   *)
(* per-game results of the game loop.                                      *)
(***************************************************************************)
VARIABLES pc, args, ret, sidebar, pbp, sched, off_u, def_u, of, df, off_map, def_map, picks

run == <<sidebar, pbp, sched, off_u, def_u, of, df, off_map, def_map, picks>>
vars == <<pc, args, ret, run>>

\* No run of the script is in progress: a function is applied on its own.
NoRun ==
  /\ sidebar = <<>> /\ pbp = <<>> /\ sched = <<>> /\ off_u = <<>> /\ def_u = <<>>
  /\ of = <<>> /\ df = <<>> /\ off_map = <<>> /\ def_map = <<>> /\ picks = <<>>

(***************************************************************************)
(* Exact arithmetic on dyadic rationals <<n, e>> = n * 2^e, used only to   *)
(* state properties: what a float result is measured against.              *)
(***************************************************************************)
XAdd(a, b) ==
  LET e == MinE(a, b) IN Canon(a[1] * Pow2(a[2] - e) + b[1] * Pow2(b[2] - e), e)
XNeg(a) == <<-a[1], a[2]>>
XSub(a, b) == XAdd(a, XNeg(b))
XMul(a, b) == Canon(a[1] * b[1], a[2] + b[2])
XAbs(a) == <<Abs(a[1]), a[2]>>
XLe(a, b) ==
  LET e == MinE(a, b) IN a[1] * Pow2(a[2] - e) <= b[1] * Pow2(b[2] - e)
XLt(a, b) == a # b /\ XLe(a, b)
XInt(n) == Canon(n, 0)
\* |x - y| <= k * 2^-Prec * scale: x is y up to k roundings of values of size scale
Within(x, y, k, scale) ==
  XLe(XMul(<<1, Prec>>, XAbs(XSub(x, y))), XMul(XInt(k), XAbs(scale)))

(***************************************************************************)
(* The verdict classification of the game loop, applied to every pair of   *)
(* team edges and every threshold of a bounded set.                        *)
(***************************************************************************)
EdgeInputs == {NaN, Lit(-1, 2), Lit(-1, 8), F(0), Lit(1, 8), Lit(1, 4),
               Lit(3, 10), Lit(7, 10), Lit(1, 128), Lit(129, 256)}
MarginInputs == {F(0), Lit(1, 8), Lit(15, 100), Lit(2, 5), F(1)}

InitVerdict ==
  /\ pc = "call"
  /\ args \in [home_edge : EdgeInputs, away_edge : EdgeInputs, close_margin : MarginInputs]
  /\ ret = <<>>
  /\ NoRun

\* lines 169-174 of the game loop
ClassifyGame ==
  /\ pc = "call"
  /\ LET net == NetEdge(args.home_edge, args.away_edge)
     IN  ret' = [net |-> net, verdict |-> Verdict(net, args.close_margin)]
  /\ pc' = "return"
  /\ UNCHANGED <<args, run>>

SpecVerdict == InitVerdict /\ [][ClassifyGame]_vars

\* C1: net is home edge minus away edge (rounded once), absent exactly when an
\* operand is absent; the verdict is "Insufficient data" when net is absent,
\* names the home team only when net > threshold, the away team only when
\* net < -threshold, and is "Too close to call" otherwise, in particular when
\* net equals +threshold or -threshold.
VerdictClassification ==
  pc = "return" =>
    LET h == args.home_edge
        a == args.away_edge
        t == args.close_margin
        net == ret.net
        v == ret.verdict
    IN  /\ isna(net) <=> (isna(h) \/ isna(a))
        /\ notna(net) => Within(net, XSub(h, a), 1, XSub(h, a))
        /\ isna(net) => v = "Insufficient data"
        /\ notna(net) =>
             /\ v = "home should win" <=> XLt(t, net)
             /\ v = "away should win" <=> XLt(net, XNeg(t))
             /\ v = "Too close to call" <=> (XLe(net, t) /\ XLe(XNeg(t), net))
             /\ (net = t \/ net = XNeg(t)) => v = "Too close to call"

\* A game whose net edge sits exactly on a non-zero threshold has been classified.
VerdictBoundaryReached ==
  /\ pc = "return"
  /\ notna(ret.net)
  /\ ret.net = args.close_margin
  /\ args.close_margin # F(0)
  /\ ret.verdict = "Too close to call"

(***************************************************************************)
(* normalize, applied to every column of at most MaxRows rows over a       *)
(* bounded set of values, in both directions.                              *)
(***************************************************************************)
MaxRows == 3
ColumnInputs == {NaN, F(-100), Lit(-1, 2), F(0), Lit(3, 10), F(1), Lit(33, 32)}
SeriesInputs == UNION {[1..n -> ColumnInputs] : n \in 0..MaxRows}

InitNormalize ==
  /\ pc = "call"
  /\ args \in [series : SeriesInputs, invert : BOOLEAN]
  /\ ret = <<>>
  /\ NoRun

CallNormalize ==
  /\ pc = "call"
  /\ ret' = normalize(args.series, args.invert)
  /\ pc' = "return"
  /\ UNCHANGED <<args, run>>

SpecNormalize == InitNormalize /\ [][CallNormalize]_vars

\* The distinct non-absent values of a column
Distinct(series) == {x \in Range(series) : notna(x)}

\* C6: when the column has zero or one distinct non-absent value, every row of
\* the output, absent rows included, is exactly 0.5, with invert unset or set.
ConstantColumnLaw ==
  (pc = "return" /\ Cardinality(Distinct(args.series)) <= 1) =>
    /\ DOMAIN ret = DOMAIN args.series
    /\ \A i \in DOMAIN ret : ret[i] = Lit(1, 2)

\* A constant column mixed with an absent entry has been normalized with invert set.
ConstantColumnWithAbsentReached ==
  /\ pc = "return"
  /\ args.invert
  /\ Len(args.series) >= 2
  /\ NaN \in Range(args.series)
  /\ Cardinality(Distinct(args.series)) = 1
  /\ \A i \in DOMAIN ret : ret[i] = Lit(1, 2)

\* The least and the greatest of the distinct non-absent values, exactly
XMin(S) == CHOOSE x \in S : \A y \in S : XLe(x, y)
XMax(S) == CHOOSE x \in S : \A y \in S : XLe(y, x)

\* The parts of the rescaling law that do not concern the order: absent
\* entries stay absent; a non-absent entry x maps into [0, 1], to
\* (x - min) / (max - min) up to the rounding of the float operations (to 1
\* minus it when invert is set); the minimum maps to 0 and the maximum to 1
\* (to 1 and to 0 when invert is set).
RescaledValues ==
  LET s  == args.series
      mn == XMin(Distinct(s))
      mx == XMax(Distinct(s))
      D  == XSub(mx, mn)
  IN  /\ DOMAIN ret = DOMAIN s
      /\ \A i \in DOMAIN s :
           /\ isna(ret[i]) <=> isna(s[i])
           /\ notna(s[i]) =>
                /\ XLe(<<0, 0>>, ret[i]) /\ XLe(ret[i], <<1, 0>>)
                /\ Within(XMul(IF args.invert THEN XSub(<<1, 0>>, ret[i]) ELSE ret[i], D),
                          XSub(s[i], mn), 4, D)
                /\ s[i] = mn => ret[i] = (IF args.invert THEN F(1) ELSE F(0))
                /\ s[i] = mx => ret[i] = (IF args.invert THEN F(0) ELSE F(1))

\* The statement of the rescaling law as written: the outputs of the
\* non-absent entries are in the same order as the inputs (in the reverse
\* order when invert is set), a smaller input giving a strictly smaller
\* (larger) output.
RescaleStrictOrder ==
  (pc = "return" /\ Cardinality(Distinct(args.series)) >= 2) =>
    /\ RescaledValues
    /\ \A i, j \in DOMAIN args.series :
         (notna(args.series[i]) /\ notna(args.series[j])
            /\ XLt(args.series[i], args.series[j])) =>
           IF args.invert THEN XLt(ret[j], ret[i]) ELSE XLt(ret[i], ret[j])

\* C11, amended: when the column has at least two distinct non-absent values,
\* absent entries stay absent and every non-absent entry maps into [0, 1], to
\* (x - min) / (max - min) computed in floats, the minimum to 0 and the
\* maximum to 1; the order is kept weakly: x <= y gives out(x) <= out(y), and
\* two distinct inputs may share an output.  With invert set each output is 1
\* minus the rescaled value (rounded), still in [0, 1], the minimum at 1 and
\* the maximum at 0, and the order is weakly reversed.
RescaleLaw ==
  (pc = "return" /\ Cardinality(Distinct(args.series)) >= 2) =>
    /\ RescaledValues
    /\ \A i, j \in DOMAIN args.series :
         (notna(args.series[i]) /\ notna(args.series[j])
            /\ XLe(args.series[i], args.series[j])) =>
           IF args.invert THEN XLe(ret[j], ret[i]) ELSE XLe(ret[i], ret[j])

\* A column in which rounding maps two distinct values to one output has been
\* normalized with invert set, its minimum going to 1.
RoundedTieReached ==
  /\ pc = "return"
  /\ args.invert
  /\ \E i, j, k \in DOMAIN args.series :
       /\ notna(args.series[i]) /\ notna(args.series[j])
       /\ XLt(args.series[i], args.series[j])
       /\ ret[i] = ret[j]
       /\ XLt(args.series[k], args.series[i]) /\ ret[k] = F(1)

(***************************************************************************)
(* offense_unit_score and defense_unit_score, applied to every row whose   *)
(* normalized sub-metrics come from a bounded set.                         *)
(***************************************************************************)
SubMetricInputs == {NaN, F(0), Lit(1, 3), F(1)}
OffenseRowInputs ==
  [unit : Range(OffUnits), epa_n : SubMetricInputs, succ_n : SubMetricInputs,
   expl_n : SubMetricInputs, pbw_n : SubMetricInputs, rbw_n : SubMetricInputs]
DefenseRowInputs ==
  [unit : Range(DefUnits) \cup {"ST"}, epa_allowed_n : SubMetricInputs,
   succ_allowed_n : SubMetricInputs, expl_allowed_n : SubMetricInputs,
   pressure_n : SubMetricInputs, run_stop_win_n : SubMetricInputs,
   coverage_n : SubMetricInputs]

InitUnitScore ==
  /\ pc = "call"
  /\ \/ \E r \in OffenseRowInputs : args = [side |-> "offense", r |-> r]
     \/ \E r \in DefenseRowInputs : args = [side |-> "defense", r |-> r]
  /\ ret = <<>>
  /\ NoRun

CallOffenseUnitScore ==
  /\ pc = "call"
  /\ args.side = "offense"
  /\ ret' = offense_unit_score(args.r)
  /\ pc' = "return"
  /\ UNCHANGED <<args, run>>

CallDefenseUnitScore ==
  /\ pc = "call"
  /\ args.side = "defense"
  /\ ret' = defense_unit_score(args.r)
  /\ pc' = "return"
  /\ UNCHANGED <<args, run>>

NextUnitScore == CallOffenseUnitScore \/ CallDefenseUnitScore
SpecUnitScore == InitUnitScore /\ [][NextUnitScore]_vars

\* The names of the normalized sub-metrics a unit's score is drawn from.
SourceSet(side, unit) ==
  IF side = "offense"
  THEN IF unit = "OL" THEN {"pbw_n", "rbw_n"} ELSE {"epa_n", "succ_n", "expl_n"}
  ELSE CASE unit = "PassRush" -> {"pressure_n"}
         [] unit = "RunDefense" -> {"run_stop_win_n", "expl_allowed_n", "succ_allowed_n"}
         [] unit \in {"CoverageDB", "CoverageLB"} ->
              {"coverage_n", "epa_allowed_n", "succ_allowed_n", "expl_allowed_n"}
         [] unit = "DL" -> {"run_stop_win_n"}
         [] OTHER -> {}

\* The exact sum of r[f] over the field names of S
RECURSIVE XSumFields(_, _)
XSumFields(r, S) ==
  IF S = {} THEN <<0, 0>>
  ELSE LET f == CHOOSE g \in S : TRUE IN XAdd(r[f], XSumFields(r, S \ {f}))

\* C7: the unit score is the mean of the non-absent normalized sub-metrics of
\* the unit's source set (up to the rounding of the sum and the division); it is
\* absent, never zero, exactly when every sub-metric of the set is absent, which
\* includes every defensive unit name outside the five known ones.
UnitScoreAbsence ==
  pc = "return" =>
    LET r       == args.r
        present == {f \in SourceSet(args.side, r.unit) : notna(r[f])}
        n       == Cardinality(present)
    IN  /\ isna(ret) <=> present = {}
        /\ present = {} => ret # F(0)
        /\ present # {} =>
             Within(XMul(XInt(n), ret), XSumFields(r, present), 5, XSumFields(r, present))

\* A row whose source set is entirely absent, while a sub-metric outside the set
\* is present, has been scored.
AllAbsentRowReached ==
  /\ pc = "return"
  /\ SourceSet(args.side, args.r.unit) # {}
  /\ \A f \in SourceSet(args.side, args.r.unit) : isna(args.r[f])
  /\ \E f \in DOMAIN args.r : f # "unit" /\ notna(args.r[f])
  /\ isna(ret)
(***************************************************************************)
(* unit_matchup, applied to an offense team "H" and a defense team "A"     *)
(* over unit-score maps in which every key the function reads is missing,  *)
(* holds NaN, or holds a score; the maps also hold the other team's keys.  *)
(***************************************************************************)
OffVal == [QB |-> Lit(7, 10), RB |-> Lit(1, 4), WR |-> F(1), TE |-> Lit(1, 3), OL |-> Lit(1, 2)]
MatchDefUnits == {"PassRush", "RunDefense", "CoverageDB", "CoverageLB"}
DefScoreInputs == {Lit(3, 10), F(1)}
Decoy == Lit(1, 8)

\* An entry of a map is Missing (no such key) or <<value>>.
Missing == <<>>

\* A map from the entries e (unit -> entry) of team t, plus the keys of the
\* other team o.
MkMap(t, o, e) ==
  [k \in {<<t, u>> : u \in {v \in DOMAIN e : e[v] # Missing}}
         \cup {<<o, u>> : u \in DOMAIN e}
     |-> IF k[1] = t THEN e[k[2]][1] ELSE Decoy]

OffEntryInputs == [Range(OffUnits) -> {"missing", "nan", "val"}]
OffEntries(c) ==
  [u \in Range(OffUnits) |->
     IF c[u] = "missing" THEN Missing ELSE IF c[u] = "nan" THEN <<NaN>> ELSE <<OffVal[u]>>]
DefEntryInputs ==
  [MatchDefUnits -> {Missing} \cup {<<x>> : x \in {NaN} \cup DefScoreInputs}]

DefaultShares ==
  [qb_cov_w |-> Lit(6, 10), rb_run_w |-> Lit(65, 100),
   te_covlb_w |-> Lit(55, 100), ol_pass_w |-> Lit(6, 10)]
ShareInputs ==
  {DefaultShares,
   [qb_cov_w |-> F(0), rb_run_w |-> F(1), te_covlb_w |-> F(0), ol_pass_w |-> F(1)],
   [qb_cov_w |-> F(1), rb_run_w |-> F(0), te_covlb_w |-> Lit(1, 2), ol_pass_w |-> Lit(1, 4)]}

InitMatchup ==
  /\ pc = "call"
  /\ \E c \in OffEntryInputs, d \in DefEntryInputs, sh \in ShareInputs :
       args = [off_team |-> "H", def_team |-> "A",
               off_map |-> MkMap("H", "A", OffEntries(c)),
               def_map |-> MkMap("A", "H", d), sh |-> sh]
  /\ ret = <<>>
  /\ NoRun

CallUnitMatchup ==
  /\ pc = "call"
  /\ ret' = unit_matchup(args.off_team, args.def_team, args.off_map, args.def_map, args.sh)
  /\ pc' = "return"
  /\ UNCHANGED <<args, run>>

SpecMatchup == InitMatchup /\ [][CallUnitMatchup]_vars

\* The score of (team, unit) in a map: absent when the key is missing.
Score(map, team, unit) == IF <<team, unit>> \in DOMAIN map THEN map[<<team, unit>>] ELSE NaN
\* An absent defensive score counts as 0.
OrZero(x) == IF isna(x) THEN <<0, 0>> ELSE x
\* The two defensive units and the share each blended edge is taken against.
BlendOf ==
  [QB |-> <<"CoverageDB", "PassRush", "qb_cov_w">>,
   RB |-> <<"RunDefense", "CoverageLB", "rb_run_w">>,
   TE |-> <<"CoverageLB", "CoverageDB", "te_covlb_w">>,
   OL |-> <<"PassRush", "RunDefense", "ol_pass_w">>]

\* C3: unit_matchup returns five edges; the QB, RB, TE, OL edges are absent
\* exactly when the offense score is absent and otherwise are the offense score
\* minus the share-weighted defensive blend, an absent defensive score counting
\* 0 (up to the rounding of the five float operations); the WR edge is present
\* exactly when WR_off and CoverageDB_def both are, and is then their difference.
MissingDataRule ==
  pc = "return" =>
    /\ DOMAIN ret = Range(OffUnits)
    /\ \A u \in {"QB", "RB", "TE", "OL"} :
         LET off == Score(args.off_map, args.off_team, u)
             w   == args.sh[BlendOf[u][3]]
             t1  == XMul(OrZero(Score(args.def_map, args.def_team, BlendOf[u][1])), w)
             t2  == XMul(OrZero(Score(args.def_map, args.def_team, BlendOf[u][2])),
                         XSub(<<1, 0>>, w))
         IN  /\ isna(ret[u]) <=> isna(off)
             /\ notna(off) =>
                  Within(ret[u], XSub(off, XAdd(t1, t2)), 5, XAdd(XAbs(off), XAdd(t1, t2)))
    /\ LET off == Score(args.off_map, args.off_team, "WR")
           cov == Score(args.def_map, args.def_team, "CoverageDB")
       IN  /\ notna(ret.WR) <=> (notna(off) /\ notna(cov))
           /\ notna(ret.WR) => Within(ret.WR, XSub(off, cov), 1, XSub(off, cov))

\* A matchup in which the QB score is present, CoverageDB is a missing key and
\* PassRush is NaN, so the QB edge is the QB score itself and the WR edge is absent.
PartialDefenseReached ==
  /\ pc = "return"
  /\ notna(Score(args.off_map, "H", "QB"))
  /\ notna(Score(args.off_map, "H", "WR"))
  /\ <<"A", "CoverageDB">> \notin DOMAIN args.def_map
  /\ <<"A", "PassRush">> \in DOMAIN args.def_map
  /\ isna(args.def_map[<<"A", "PassRush">>])
  /\ ret.QB = Score(args.off_map, "H", "QB")
  /\ isna(ret.WR)

(***************************************************************************)
(* adjusted_team_edge, applied over maps, dependency strengths and unit    *)
(* weights of bounded sets.                                                *)
(***************************************************************************)
DefaultWeights ==
  [QB |-> Lit(12, 10), RB |-> Lit(7, 10), WR |-> Lit(11, 10), TE |-> Lit(6, 10), OL |-> Lit(11, 10)]
WeightInputs ==
  {[u \in Range(OffUnits) |-> IF u \in P THEN DefaultWeights[u] ELSE F(0)] :
     P \in SUBSET Range(OffUnits)}
DepInputs == {F(0), Lit(1, 2), F(1), F(2)}
OLScoreInputs == {NaN, F(0), Lit(1, 2), F(1)}
EdgeOffInputs ==
  {[u \in Range(OffUnits) |->
      IF u = "OL" THEN <<ol>> ELSE IF u \in P THEN <<OffVal[u]>> ELSE <<NaN>>] :
     P \in SUBSET {"QB", "RB", "WR", "TE"}, ol \in OLScoreInputs}
EdgeDefInputs ==
  {[u \in MatchDefUnits |-> Missing],
   [u \in MatchDefUnits |-> <<Lit(1, 2)>>],
   [u \in MatchDefUnits |-> <<F(1)>>],
   [PassRush |-> <<F(1)>>, RunDefense |-> <<F(0)>>,
    CoverageDB |-> <<Lit(3, 10)>>, CoverageLB |-> <<NaN>>]}

InitEdge ==
  /\ pc = "call"
  /\ \E o \in EdgeOffInputs, d \in EdgeDefInputs, w \in WeightInputs, dep \in DepInputs :
       args = [off_team |-> "H", def_team |-> "A",
               off_map |-> MkMap("H", "A", o), def_map |-> MkMap("A", "H", d),
               dep_strength |-> dep, weights |-> w, sh |-> DefaultShares]
  /\ ret = <<>>
  /\ NoRun

CallAdjustedTeamEdge ==
  /\ pc = "call"
  /\ ret' = adjusted_team_edge(args.off_team, args.def_team, args.off_map, args.def_map,
                               args.dep_strength, args.weights, args.sh)
  /\ pc' = "return"
  /\ UNCHANGED <<args, run>>

SpecEdge == InitEdge /\ [][CallAdjustedTeamEdge]_vars

\* x clamped to [lo, hi], exactly
XClamp(x, lo, hi) == IF XLt(x, lo) THEN lo ELSE IF XLt(hi, x) THEN hi ELSE x

\* C4: TTF is 1.0 when the OL edge is absent and otherwise
\* clamp(0.6 + 0.4 * OL_edge * dep_strength, 0.2, 1.0) (up to the rounding of
\* the three float operations); it always lies in [0.2, 1.0], and it is exactly
\* 0.6 when the OL edge is 0, for every dep_strength.
TTFLaw ==
  pc = "return" =>
    LET e == ret.raw.OL
        p == XMul(XMul(Lit(4, 10), e), args.dep_strength)
    IN  /\ isna(e) => ret.ttf = F(1)
        /\ notna(e) =>
             /\ XLe(Lit(2, 10), ret.ttf) /\ XLe(ret.ttf, F(1))
             /\ Within(ret.ttf, XClamp(XAdd(Lit(6, 10), p), Lit(2, 10), F(1)),
                       4, XAdd(Lit(6, 10), XAbs(p)))
             /\ e = F(0) => ret.ttf = Lit(6, 10)

\* A call has returned in which a present, non-zero OL score is cancelled by the
\* defensive blend to an OL edge of 0, under the largest dep_strength.
TTFZeroEdgeReached ==
  /\ pc = "return"
  /\ ret.raw.OL = F(0)
  /\ notna(Score(args.off_map, "H", "OL")) /\ Score(args.off_map, "H", "OL") # F(0)
  /\ args.dep_strength = F(2)
  /\ ret.ttf = Lit(6, 10)

\* C10: the adjusted QB, WR and TE edges are the raw edge times TTF (one rounded
\* multiplication) when the raw edge is present and absent when it is absent;
\* the adjusted RB and OL edges are the raw RB and OL edges themselves.
PassingGameOnly ==
  pc = "return" =>
    /\ \A u \in {"QB", "WR", "TE"} :
         /\ isna(ret.adj[u]) <=> isna(ret.raw[u])
         /\ notna(ret.raw[u]) =>
              Within(ret.adj[u], XMul(ret.raw[u], ret.ttf), 1, XMul(ret.raw[u], ret.ttf))
    /\ ret.adj.RB = ret.raw.RB
    /\ ret.adj.OL = ret.raw.OL
    /\ DOMAIN ret.adj = Range(OffUnits)

\* A call has returned with a factor below 1, a scaled QB edge, an absent WR
\* edge and a present, non-zero RB edge.
ScaledPassingGameReached ==
  /\ pc = "return"
  /\ ret.ttf # F(1)
  /\ notna(ret.raw.QB) /\ ret.raw.QB # F(0) /\ ret.adj.QB # ret.raw.QB
  /\ isna(ret.raw.WR)
  /\ notna(ret.raw.RB) /\ ret.raw.RB # F(0)

\* The units that enter the roll-up of a returned call
Qualifying == {u \in Range(OffUnits) : notna(ret.adj[u]) /\ XLt(<<0, 0>>, args.weights[u])}

\* Exact sum over the units of S of f[u]
RECURSIVE XSumOver(_, _)
XSumOver(f, S) ==
  IF S = {} THEN <<0, 0>>
  ELSE LET u == CHOOSE v \in S : TRUE IN XAdd(f[u], XSumOver(f, S \ {u}))

\* C5 as stated: the team edge is absent when no unit qualifies, and equals the
\* adjusted edge of the unit exactly when exactly one unit qualifies.
RollUpExact ==
  pc = "return" =>
    /\ Qualifying = {} => isna(ret.team_edge)
    /\ \A u \in Qualifying : Qualifying = {u} => ret.team_edge = ret.adj[u]

\* C5, amended: the team edge is absent exactly when no unit qualifies;
\* otherwise it is the weighted mean of the adjusted edges over the qualifying
\* units up to the rounding of the float operations of the roll-up, and with
\* exactly one qualifying unit it is that unit's adjusted edge up to the two
\* roundings of (w * v) / w.
RollUpLaw ==
  pc = "return" =>
    LET W  == XSumOver(args.weights, Qualifying)
        wv == [u \in Qualifying |-> XMul(args.weights[u], ret.adj[u])]
    IN  /\ isna(ret.team_edge) <=> Qualifying = {}
        /\ Qualifying # {} =>
             Within(XMul(ret.team_edge, W), XSumOver(wv, Qualifying), 12,
                    XSumOver([u \in Qualifying |-> XAbs(wv[u])], Qualifying))
        /\ \A u \in Qualifying : Qualifying = {u} =>
             Within(ret.team_edge, ret.adj[u], 3, ret.adj[u])

\* A call has returned in which exactly one unit qualifies although two units
\* have a positive weight and two have a present edge.
SingleUnitRollUpReached ==
  /\ pc = "return"
  /\ Cardinality(Qualifying) = 1
  /\ Cardinality({u \in Range(OffUnits) : XLt(<<0, 0>>, args.weights[u])}) = 2
  /\ Cardinality({u \in Range(OffUnits) : notna(ret.adj[u])}) >= 2
  /\ notna(ret.team_edge)

(***************************************************************************)
(* The run of the script (streamlit_app.py, lines 152-174) on a play log   *)
(* of at most MaxPlays plays, under the sidebar's default inputs.          *)
(***************************************************************************)
MaxPlays == 2

DefaultSidebar ==
  [season |-> 2025, week |-> 3, weights |-> DefaultWeights, sh |-> DefaultShares,
   dep_strength |-> F(1), close_margin |-> Lit(15, 100)]

Play(pos, def, type, epa, yards, air, sk) ==
  [season |-> 2025, week |-> 3, season_type |-> "REG", play_type |-> type, epa |-> epa,
   posteam |-> pos, defteam |-> def, yards_gained |-> yards, air_yards |-> air, sack |-> sk]
PassSacked(pos, def) == Play(pos, def, "pass", Lit(-1, 2), F(-5), NaN, F(1))
PassDeep(pos, def)   == Play(pos, def, "pass", Lit(3, 4), F(20), F(20), NaN)
RunStuffed(pos, def) == Play(pos, def, "run", Lit(-1, 4), F(0), NaN, F(0))
RunLong(pos, def)    == Play(pos, def, "run", Lit(1, 2), F(12), NaN, F(0))

\* Plays that pass the filter, and one play for each way of failing it.
KeptPlays ==
  UNION {{PassSacked(t[1], t[2]), PassDeep(t[1], t[2]), RunStuffed(t[1], t[2]),
          RunLong(t[1], t[2])} : t \in {<<1, 2>>, <<2, 1>>}}
  \cup {PassDeep(None, 2), RunStuffed(1, None)}
DroppedPlays ==
  {[PassDeep(1, 2) EXCEPT !.season = 2024],
   [PassDeep(1, 2) EXCEPT !.week = 4],
   [PassDeep(1, 2) EXCEPT !.season_type = "POST"],
   [RunLong(1, 2) EXCEPT !.play_type = "punt"],
   [PassDeep(1, 2) EXCEPT !.epa = NaN]}
PlayPool == KeptPlays \cup DroppedPlays
PlayLogs == UNION {[1..n -> PlayPool] : n \in 0..MaxPlays}

Game(home, away, type) ==
  [season |-> 2025, week |-> 3, game_type |-> type, home_team |-> home, away_team |-> away]
SchedInputs == {<<Game(1, 2, "REG")>>, <<Game(1, 2, "POST")>>}

\* wk = sched[(season == season) & (week == week) & (game_type == "REG")]
RECURSIVE WeekGames(_, _)
WeekGames(sc, sb) ==
  IF sc = <<>> THEN <<>>
  ELSE (IF /\ Head(sc).season = sb.season /\ Head(sc).week = sb.week
           /\ Head(sc).game_type = "REG"
        THEN <<Head(sc)>> ELSE <<>>) \o WeekGames(Tail(sc), sb)

Init ==
  /\ pc = "start"
  /\ args = <<>> /\ ret = <<>>
  /\ sidebar = DefaultSidebar
  /\ pbp \in PlayLogs
  /\ sched \in SchedInputs
  /\ off_u = <<>> /\ def_u = <<>> /\ of = <<>> /\ df = <<>>
  /\ off_map = <<>> /\ def_map = <<>> /\ picks = <<>>

\* line 154: off_u, def_u = build_units(pbp, season, week, False, False)
BuildUnits ==
  /\ pc = "start"
  /\ LET r == compute_team_unit_metrics(pbp, sidebar.season, sidebar.week)
     IN  off_u' = r.offense_units /\ def_u' = r.defense_units
  /\ pc' = "built"
  /\ UNCHANGED <<args, ret, sidebar, pbp, sched, of, df, off_map, def_map, picks>>

\* line 155: of = unitize_offense(off_u); df = unitize_defense(def_u)
Unitize ==
  /\ pc = "built"
  /\ HasOffenseColumns(off_u) /\ HasDefenseColumns(def_u)
  /\ of' = unitize_offense(off_u)
  /\ df' = unitize_defense(def_u)
  /\ pc' = "unitized"
  /\ UNCHANGED <<args, ret, sidebar, pbp, sched, off_u, def_u, off_map, def_map, picks>>

\* line 155, when a frame lacks a column that is read: the script ends with KeyError
UnitizeRaises ==
  /\ pc = "built"
  /\ ~(HasOffenseColumns(off_u) /\ HasDefenseColumns(def_u))
  /\ pc' = "KeyError"
  /\ UNCHANGED <<args, ret, run>>

\* line 156: off_map, def_map = build_maps(of, df)
BuildMaps ==
  /\ pc = "unitized"
  /\ off_map' = ScoreMap(of, "unit_off_score")
  /\ def_map' = ScoreMap(df, "unit_def_score")
  /\ pc' = "mapped"
  /\ UNCHANGED <<args, ret, sidebar, pbp, sched, off_u, def_u, of, df, picks>>

\* lines 159-160: no game of the week in the schedule
NoGames ==
  /\ pc = "mapped"
  /\ WeekGames(sched, sidebar) = <<>>
  /\ pc' = "done"
  /\ UNCHANGED <<args, ret, run>>

\* lines 165-174: one iteration of the game loop
ScoreGame ==
  /\ pc = "mapped"
  /\ Len(picks) < Len(WeekGames(sched, sidebar))
  /\ picks' = Append(picks, GamePick(WeekGames(sched, sidebar)[Len(picks) + 1],
                                     off_map, def_map, sidebar))
  /\ pc' = IF Len(picks) + 1 = Len(WeekGames(sched, sidebar)) THEN "done" ELSE "mapped"
  /\ UNCHANGED <<args, ret, sidebar, pbp, sched, off_u, def_u, of, df, off_map, def_map>>

Next == BuildUnits \/ Unitize \/ UnitizeRaises \/ BuildMaps \/ NoGames \/ ScoreGame
Spec == Init /\ [][Next]_vars

\* The plays of the log that pass the filter
Filtered == Filter(pbp, sidebar.season, sidebar.week)

\* Number of rows of a frame for (team, unit)
RowCount(frame, t, u) ==
  Cardinality({i \in DOMAIN frame.rows : frame.rows[i].team = t /\ frame.rows[i].unit = u})

\* C2: when no play passes the filter, the two tables returned are empty and
\* still carry the offense and the defense column sets, no stage raises, and
\* every game of the week gets the verdict "Insufficient data".
EmptyInputHandled ==
  (pc # "start" /\ Filtered = <<>>) =>
    /\ off_u.rows = <<>> /\ def_u.rows = <<>>
    /\ off_u.cols = OffenseCols /\ def_u.cols = DefenseCols
    /\ pc # "KeyError"
    /\ pc = "done" =>
         /\ Len(picks) = Len(WeekGames(sched, sidebar))
         /\ \A i \in DOMAIN picks : picks[i].verdict = "Insufficient data"

\* C9: the offense table has exactly one row for each (team, unit), unit in
\* {QB, RB, WR, TE, OL}, for every team that is the offense of a filtered play,
\* and no row for another team; the same holds for the defense table and its
\* five units; the rate fields are absent on OL rows and the block-win fields
\* are absent on QB/RB/WR/TE rows.
RowUniqueness ==
  pc # "start" =>
    /\ \A t \in 1..2, u \in Range(OffUnits) :
         RowCount(off_u, t, u) = IF t \in Keys(Filtered, "posteam") THEN 1 ELSE 0
    /\ \A t \in 1..2, u \in Range(DefUnits) :
         RowCount(def_u, t, u) = IF t \in Keys(Filtered, "defteam") THEN 1 ELSE 0
    /\ Len(off_u.rows) = 5 * Cardinality(Keys(Filtered, "posteam"))
    /\ Len(def_u.rows) = 5 * Cardinality(Keys(Filtered, "defteam"))
    /\ \A i \in DOMAIN off_u.rows :
         LET r == off_u.rows[i]
         IN  IF r.unit = "OL"
             THEN isna(r.epa_per_play) /\ isna(r.success_rate) /\ isna(r.explosive_rate)
             ELSE isna(r.pass_block_win) /\ isna(r.run_block_win)

\* The tables have been built from a log in which team 1 has only run plays on
\* offense (so its OL row has no pass proxy) and team 2 is on offense too.
OneSidedOLRowReached ==
  /\ pc = "built"
  /\ Keys(Filtered, "posteam") = {1, 2}
  /\ \E i \in DOMAIN off_u.rows :
       /\ off_u.rows[i].team = 1 /\ off_u.rows[i].unit = "OL"
       /\ isna(off_u.rows[i].pass_block_win) /\ notna(off_u.rows[i].run_block_win)
  /\ Keys(Filtered, "defteam") # {}

(***************************************************************************)
(* The body of the game loop applied to one game between teams 1 and 2     *)
(* whose ten unit scores all equal one common value, under sidebar inputs  *)
(* of bounded sets (end-to-end scenario C).                                *)
(***************************************************************************)
CommonScoreInputs ==
  {F(0), Lit(1, 3), Lit(1, 2), Lit(3, 10), Lit(6, 10), Lit(7, 10), Lit(9, 10), F(1)}
CommonMap(units, c) == [k \in {1, 2} \X Range(units) |-> c]
GameShareInputs == ShareInputs \cup {[DefaultShares EXCEPT !.ol_pass_w = Lit(15, 100)]}
SidebarInputs ==
  [season : {2025}, week : {3}, weights : WeightInputs, sh : GameShareInputs,
   dep_strength : DepInputs, close_margin : MarginInputs]

InitGame ==
  /\ pc = "call"
  /\ \E c \in CommonScoreInputs, sb \in SidebarInputs :
       args = [g |-> Game(1, 2, "REG"), off_map |-> CommonMap(OffUnits, c),
               def_map |-> CommonMap(DefUnits, c), sb |-> sb]
  /\ ret = <<>>
  /\ NoRun

CallGamePick ==
  /\ pc = "call"
  /\ ret' = GamePick(args.g, args.off_map, args.def_map, args.sb)
  /\ pc' = "return"
  /\ UNCHANGED <<args, run>>

SpecGame == InitGame /\ [][CallGamePick]_vars

\* The statement of scenario C as written: every raw edge of both sides is 0,
\* TTF is exactly 0.6, the adjusted QB/WR/TE edges are 0, the net edge is 0 and
\* the verdict is "Too close to call" for every positive threshold.
ScenarioCExact ==
  pc = "return" =>
    /\ \A u \in Range(OffUnits) : ret.home_raw[u] = F(0) /\ ret.away_raw[u] = F(0)
    /\ ret.home_ttf = Lit(6, 10) /\ ret.away_ttf = Lit(6, 10)
    /\ \A u \in {"QB", "WR", "TE"} : ret.home_adj[u] = F(0) /\ ret.away_adj[u] = F(0)
    /\ ret.net = F(0)
    /\ fgt(args.sb.close_margin, F(0)) => ret.verdict = "Too close to call"

\* x is 0 up to k roundings of values of size at most 1
NearZero(x, k) == Within(x, <<0, 0>>, k, <<1, 0>>)

\* C8, amended: with all ten unit scores equal to one value in [0, 1] and
\* shares in [0, 1], the WR raw edge of both sides is exactly 0 and the other
\* raw edges are 0 up to the rounding of the blend (at most 4 * 2^-Prec in
\* size); TTF is 0.6 up to 4 * 2^-Prec for dep_strength in [0, 2]; the
\* adjusted QB/WR/TE edges are 0 up to 4 * 2^-Prec; the two sides are equal;
\* and when at least one unit weight is positive the net edge is exactly 0
\* and the verdict is "Too close to call" for every threshold, while with all
\* weights 0 the net edge is absent and the verdict is "Insufficient data".
ScenarioCLaw ==
  pc = "return" =>
    /\ ret.home_raw = ret.away_raw /\ ret.home_adj = ret.away_adj
    /\ ret.home_ttf = ret.away_ttf /\ ret.home_edge = ret.away_edge
    /\ ret.home_raw.WR = F(0)
    /\ \A u \in Range(OffUnits) : notna(ret.home_raw[u]) /\ NearZero(ret.home_raw[u], 4)
    /\ notna(ret.home_ttf) /\ Within(ret.home_ttf, Lit(6, 10), 4, <<1, 0>>)
    /\ \A u \in {"QB", "WR", "TE"} :
         notna(ret.home_adj[u]) /\ NearZero(ret.home_adj[u], 4)
    /\ IF \E u \in Range(OffUnits) : XLt(<<0, 0>>, args.sb.weights[u])
       THEN ret.net = F(0) /\ ret.verdict = "Too close to call"
       ELSE isna(ret.net) /\ ret.verdict = "Insufficient data"

\* A game of identical scores has been scored in which rounding left a
\* non-zero OL edge and a TTF other than the literal 0.6, under a positive
\* threshold and at least one positive weight.
RoundedScenarioReached ==
  /\ pc = "return"
  /\ ret.home_raw.OL # F(0)
  /\ ret.home_ttf # Lit(6, 10)
  /\ XLt(<<0, 0>>, args.sb.close_margin)
  /\ ret.verdict = "Too close to call"

(***************************************************************************)
(* The offensive-line proxies, stated over the play log of the run.        *)
(***************************************************************************)
\* The plays of the log that pass the filter, by position in the log
KeptAt ==
  {i \in DOMAIN pbp :
     /\ pbp[i].season = sidebar.season /\ pbp[i].season_type = "REG"
     /\ pbp[i].week <= sidebar.week /\ pbp[i].play_type \in {"pass", "run"}
     /\ notna(pbp[i].epa)}
PlaysAt(t, type) == {i \in KeptAt : pbp[i].posteam = t /\ pbp[i].play_type = type}
SackedAt(t) == {i \in PlaysAt(t, "pass") : notna(pbp[i].sack) /\ pbp[i].sack # F(0)}
StuffedAt(t) == {i \in PlaysAt(t, "run") : XLe(pbp[i].yards_gained, <<0, 0>>)}
RowsOf(frame, t, u) ==
  {i \in DOMAIN frame.rows : frame.rows[i].team = t /\ frame.rows[i].unit = u}

\* v is 1 - bad / all up to the rounding of the division and the subtraction,
\* exactly 1 when bad = 0 and exactly 0 when bad = all; absent when all = 0.
IsWinProxy(v, bad, all) ==
  IF all = 0 THEN isna(v)
  ELSE /\ notna(v)
       /\ Within(XMul(XInt(all), v), XInt(all - bad), 2, XInt(all))
       /\ bad = 0 => v = F(1)
       /\ bad = all => v = F(0)

\* C12: over exactly the plays that pass the filter, the OL row of a team
\* carries pass-block-win = 1 - sacks / attempts over its pass plays (an absent
\* sack counting as 0) and run-block-win = 1 - stuffed / runs over its run
\* plays (stuffed: yards gained <= 0); a team with plays of one type only keeps
\* its OL row with the other proxy absent; a team whose plays all have epa > 0,
\* with no sack and no stuff, gets 1.0, 1.0 and success rate 1.0.
OLProxyLaw ==
  pc # "start" =>
    \A t \in 1..2 :
      LET P == PlaysAt(t, "pass")
          R == PlaysAt(t, "run")
      IN  /\ Cardinality(RowsOf(off_u, t, "OL")) = IF P \cup R = {} THEN 0 ELSE 1
          /\ \A i \in RowsOf(off_u, t, "OL") :
               /\ IsWinProxy(off_u.rows[i].pass_block_win,
                             Cardinality(SackedAt(t)), Cardinality(P))
               /\ IsWinProxy(off_u.rows[i].run_block_win,
                             Cardinality(StuffedAt(t)), Cardinality(R))
          /\ (/\ P # {} /\ R # {} /\ SackedAt(t) = {} /\ StuffedAt(t) = {}
              /\ \A i \in P \cup R : XLt(<<0, 0>>, pbp[i].epa)) =>
               /\ \A i \in RowsOf(off_u, t, "OL") :
                    /\ off_u.rows[i].pass_block_win = F(1)
                    /\ off_u.rows[i].run_block_win = F(1)
               /\ \A u \in {"QB", "RB", "WR", "TE"} :
                    /\ RowsOf(off_u, t, u) # {}
                    /\ \A i \in RowsOf(off_u, t, u) : off_u.rows[i].success_rate = F(1)

\* The tables have been built from a log of a sacked pass of team 1 and a play
\* of team 1 that fails the filter: the OL row of team 1 has pass-block-win 0
\* and no run-block-win.
FilteredOutPlayReached ==
  /\ pc = "built"
  /\ Len(pbp) = 2 /\ Cardinality(KeptAt) = 1
  /\ \A i \in DOMAIN pbp : pbp[i].posteam = 1
  /\ \E i \in RowsOf(off_u, 1, "OL") :
       /\ off_u.rows[i].pass_block_win = F(0)
       /\ isna(off_u.rows[i].run_block_win)
====
